---- MODULE Spec2Model ----
(***************************************************************************)
(* Model of src/streamlit_app.py: the reverse-geocoding web application.   *)
(*                                                                         *)
(*   - UltraGeocoderWeb: text normalisation, similarity, scoring, the      *)
(*     per-provider rate limiter, the two provider clients and the         *)
(*     fallback chain of geocode_coordinate;                               *)
(*   - detect_columns and the part of main() that validates the input,     *)
(*     submits one future per row to a ThreadPoolExecutor, collects the    *)
(*     futures as they complete and sorts the results.                     *)
(*                                                                         *)
(* Python values are records [k, s]: k = "str" with the characters in s,   *)
(* k = "none" for None and k = "nan" for the float NaN pandas gives for an *)
(* empty cell.  Time is counted in half seconds.  Scores are kept in       *)
(* hundredths (the code rounds them to two decimals).                      *)
(***************************************************************************)
EXTENDS Integers, Sequences, FiniteSets, TLC

----------------------------------------------------------------------------
(* Python values *)

None == [k |-> "none", s |-> <<>>]
NaN  == [k |-> "nan",  s |-> <<>>]
Str(chars) == [k |-> "str", s |-> chars]
Empty == Str(<<>>)

\* bool(v): None and "" are falsy; NaN is a non-zero float, hence truthy.
Truthy(v) == v.k = "nan" \/ (v.k = "str" /\ v.s # <<>>)

\* a or b
Or(a, b) == IF Truthy(a) THEN a ELSE b

\* pd.isna(v)
IsNa(v) == v.k \in {"none", "nan"}

\* str(v)
PyStr(v) == IF v.k = "str" THEN v.s
            ELSE IF v.k = "nan" THEN <<"n", "a", "n">>
            ELSE <<"N", "o", "n", "e">>

----------------------------------------------------------------------------
(* Characters *)

UpperCase == <<"A","B","C","D","E","F","G","H","I","J","K","L","M",
               "N","O","P","Q","R","S","T","U","V","W","X","Y","Z">>
LowerCase == <<"a","b","c","d","e","f","g","h","i","j","k","l","m",
               "n","o","p","q","r","s","t","u","v","w","x","y","z">>
Digits == {"0","1","2","3","4","5","6","7","8","9"}

Range(f) == {f[i] : i \in DOMAIN f}

\* str.lower() on one character
LowerChar(c) ==
    IF \E i \in 1..26 : UpperCase[i] = c
    THEN LowerCase[CHOOSE i \in 1..26 : UpperCase[i] = c]
    ELSE c

Lower(s) == [i \in 1..Len(s) |-> LowerChar(s[i])]

\* \w of the re module
IsWordChar(c) == c \in Range(LowerCase) \cup Range(UpperCase) \cup Digits \cup {"_"}

\* \s of the re module (the inputs use the blank only)
IsSpace(c) == c = " "

RECURSIVE LStrip(_)
LStrip(s) == IF s # <<>> /\ IsSpace(s[1]) THEN LStrip(Tail(s)) ELSE s

RECURSIVE RStrip(_)
RStrip(s) == IF s # <<>> /\ IsSpace(s[Len(s)])
             THEN RStrip(SubSeq(s, 1, Len(s) - 1)) ELSE s

\* str.strip()
Strip(s) == RStrip(LStrip(s))

\* s[i:].startswith(p), i is 1-based
StartsAt(s, i, p) ==
    /\ i + Len(p) - 1 <= Len(s)
    /\ \A j \in 1..Len(p) : s[i + j - 1] = p[j]

\* \b between s[i-1] and s[i]
WordBoundary(s, i) ==
    LET before == i > 1 /\ i - 1 <= Len(s) /\ IsWordChar(s[i - 1])
        after  == i >= 1 /\ i <= Len(s) /\ IsWordChar(s[i])
    IN  before # after

\* the alternatives of r'\b(kel\.|kelurahan|kec\.|kecamatan)\b', in order
PrefixTokens == << <<"k","e","l",".">>,
                   <<"k","e","l","u","r","a","h","a","n">>,
                   <<"k","e","c",".">>,
                   <<"k","e","c","a","m","a","t","a","n">> >>

\* the alternatives that match at position i, with both word boundaries
PrefixMatches(s, i) ==
    {a \in 1..Len(PrefixTokens) :
        /\ WordBoundary(s, i)
        /\ StartsAt(s, i, PrefixTokens[a])
        /\ WordBoundary(s, i + Len(PrefixTokens[a]))}

\* re.sub(r'\b(kel\.|kelurahan|kec\.|kecamatan)\b', '', s): leftmost match,
\* first alternative that lets the whole pattern match
RECURSIVE StripPrefixFrom(_, _)
StripPrefixFrom(s, i) ==
    IF i > Len(s) THEN <<>>
    ELSE LET m == PrefixMatches(s, i)
         IN  IF m # {}
             THEN LET a == CHOOSE x \in m : \A y \in m : x <= y
                  IN  StripPrefixFrom(s, i + Len(PrefixTokens[a]))
             ELSE <<s[i]>> \o StripPrefixFrom(s, i + 1)

StripPrefix(s) == StripPrefixFrom(s, 1)

\* re.sub(r'\s+', ' ', s)
RECURSIVE CollapseSpace(_)
CollapseSpace(s) ==
    IF s = <<>> THEN <<>>
    ELSE IF IsSpace(s[1])
         THEN <<" ">> \o CollapseSpace(LStrip(s))
         ELSE <<s[1]>> \o CollapseSpace(Tail(s))

\* UltraGeocoderWeb.normalize_text: returns the characters of the result
normalize_text(text) ==
    IF ~Truthy(text) \/ IsNa(text) THEN <<>>
    ELSE Strip(CollapseSpace(StripPrefix(Strip(Lower(PyStr(text))))))

\* a in b for strings
Contains(a, b) == \E i \in 1..(Len(b) + 1) : StartsAt(b, i, a)

\* set(s.split())
RECURSIVE Words(_, _)
Words(s, cur) ==
    IF s = <<>> THEN (IF cur = <<>> THEN {} ELSE {cur})
    ELSE IF IsSpace(s[1])
         THEN (IF cur = <<>> THEN {} ELSE {cur}) \cup Words(Tail(s), <<>>)
         ELSE Words(Tail(s), Append(cur, s[1]))

WordSet(s) == Words(s, <<>>)

\* A similarity is the fraction num/den.
Frac(n, d) == [num |-> n, den |-> d]

\* calculate_similarity that gives the Jaccard value also when one text
\* contains the other
calculate_similarityProportional(text1, text2) ==
    IF ~Truthy(text1) \/ ~Truthy(text2) THEN Frac(0, 1)
    ELSE LET t1 == normalize_text(text1)
             t2 == normalize_text(text2)
             w1 == WordSet(t1)
             w2 == WordSet(t2)
         IN  IF t1 = t2 THEN Frac(1, 1)
             ELSE IF w1 = {} \/ w2 = {} THEN Frac(0, 1)
             ELSE Frac(Cardinality(w1 \cap w2), Cardinality(w1 \cup w2))

\* UltraGeocoderWeb.calculate_similarity
calculate_similarity(text1, text2) ==
    IF ~Truthy(text1) \/ ~Truthy(text2) THEN Frac(0, 1)
    ELSE LET t1 == normalize_text(text1)
             t2 == normalize_text(text2)
             w1 == WordSet(t1)
             w2 == WordSet(t2)
         IN  IF t1 = t2 THEN Frac(1, 1)
             ELSE IF Contains(t1, t2) \/ Contains(t2, t1) THEN Frac(4, 5)
             ELSE IF w1 = {} \/ w2 = {} THEN Frac(0, 1)
             ELSE Frac(Cardinality(w1 \cap w2), Cardinality(w1 \cup w2))

----------------------------------------------------------------------------
(* Address payloads *)

\* the address keys the code reads or writes
AddrKeys == {"road", "street", "suburb", "village", "neighbourhood", "district",
             "city_district", "municipality", "county", "city", "town", "state",
             "postcode"}

\* a dict in which every key is missing: dict.get gives None
NoAddress == [key \in AddrKeys |-> None]

\* address.get(key)
Get(address, key) == address[key]

\* weights = {'kelurahan': 0.6, 'kecamatan': 0.4}, in hundredths
WeightKelurahan == 60
WeightKecamatan == 40

\* round(x, 2) of the non-negative fraction n/d of a hundredth
Round(n, d) == (2 * n + d) \div (2 * d)

\* the observed values score_result compares
ScoreKelurahan(address) ==
    Or(Or(Get(address, "suburb"), Get(address, "village")), Get(address, "neighbourhood"))

ScoreKecamatan(address) ==
    Or(Get(address, "city_district"), Get(address, "municipality"))

\* score_result that divides the sum by the weights of the terms it included
score_resultRenormalized(address, expected_kelurahan, expected_kecamatan) ==
    LET result_kelurahan == ScoreKelurahan(address)
        result_kecamatan == ScoreKecamatan(address)
        both1 == Truthy(expected_kelurahan) /\ Truthy(result_kelurahan)
        both2 == Truthy(expected_kecamatan) /\ Truthy(result_kecamatan)
        s1 == IF both1 THEN calculate_similarity(expected_kelurahan, result_kelurahan)
              ELSE Frac(0, 1)
        s2 == IF both2 THEN calculate_similarity(expected_kecamatan, result_kecamatan)
              ELSE Frac(0, 1)
        weight == (IF both1 THEN WeightKelurahan ELSE 0) + (IF both2 THEN WeightKecamatan ELSE 0)
    IN  IF weight = 0 THEN Frac(0, 1)
        ELSE Frac(100 * (WeightKelurahan * s1.num * s2.den + WeightKecamatan * s2.num * s1.den),
                  weight * s1.den * s2.den)

\* UltraGeocoderWeb.score_result: the score as a fraction of a hundredth
score_result(address, expected_kelurahan, expected_kecamatan) ==
    LET result_kelurahan == ScoreKelurahan(address)
        result_kecamatan == ScoreKecamatan(address)
        s1 == IF Truthy(expected_kelurahan) /\ Truthy(result_kelurahan)
              THEN calculate_similarity(expected_kelurahan, result_kelurahan)
              ELSE Frac(0, 1)
        s2 == IF Truthy(expected_kecamatan) /\ Truthy(result_kecamatan)
              THEN calculate_similarity(expected_kecamatan, result_kecamatan)
              ELSE Frac(0, 1)
    IN  Frac(WeightKelurahan * s1.num * s2.den + WeightKecamatan * s2.num * s1.den,
             s1.den * s2.den)

\* confidence_score = 0.5 unless expected_kelurahan is truthy, in hundredths
DefaultConfidence == 50

\* string literals of the result records
TidakDitemukan == Str(<<"T","i","d","a","k"," ","d","i","t","e","m","u","k","a","n">>)
NotFoundText == Str(<<"N","O","T","_","F","O","U","N","D">>)

\* OkResult that takes the locality the scorer compares: suburb, village or
\* neighbourhood, without district
OkResultScorerLocality(data, source, expected_kelurahan, expected_kecamatan) ==
    LET address == data.address
        confidence_score ==
            IF Truthy(expected_kelurahan)
            THEN LET sc == score_result(address, expected_kelurahan, expected_kecamatan)
                 IN  Round(sc.num, sc.den)
            ELSE DefaultConfidence
        road_name == Or(Or(Get(address, "road"), Get(address, "street")), Empty)
        suburb == Or(ScoreKelurahan(address), Empty)
        subdistrict == Or(Or(Or(Get(address, "city_district"), Get(address, "municipality")),
                             Get(address, "county")), Empty)
        city == Or(Or(Or(Get(address, "city"), Get(address, "town")),
                      Get(address, "county")), Empty)
        province == Or(Get(address, "state"), Empty)
    IN  [Nama_Jalan |-> Or(road_name, TidakDitemukan),
         Kelurahan |-> suburb,
         Kecamatan |-> subdistrict,
         Kota |-> city,
         Provinsi |-> province,
         Alamat_Lengkap |-> data.display_name,
         Confidence_Score |-> confidence_score,
         Status |-> "OK",
         Source |-> source]

\* geocode_coordinate, the branch taken when a strategy produced data
OkResult(data, source, expected_kelurahan, expected_kecamatan) ==
    LET address == data.address
        confidence_score ==
            IF Truthy(expected_kelurahan)
            THEN LET sc == score_result(address, expected_kelurahan, expected_kecamatan)
                 IN  Round(sc.num, sc.den)
            ELSE DefaultConfidence
        road_name == Or(Or(Get(address, "road"), Get(address, "street")), Empty)
        suburb == Or(Or(Or(Or(Get(address, "suburb"), Get(address, "village")),
                           Get(address, "neighbourhood")), Get(address, "district")), Empty)
        subdistrict == Or(Or(Or(Get(address, "city_district"), Get(address, "municipality")),
                             Get(address, "county")), Empty)
        city == Or(Or(Or(Get(address, "city"), Get(address, "town")),
                      Get(address, "county")), Empty)
        province == Or(Get(address, "state"), Empty)
    IN  [Nama_Jalan |-> Or(road_name, TidakDitemukan),
         Kelurahan |-> suburb,
         Kecamatan |-> subdistrict,
         Kota |-> city,
         Provinsi |-> province,
         Alamat_Lengkap |-> data.display_name,
         Confidence_Score |-> confidence_score,
         Status |-> "OK",
         Source |-> source]

\* NotFoundResult that leaves the confidence at its default
NotFoundResultDefaultConfidence ==
    [Nama_Jalan |-> NotFoundText,
     Kelurahan |-> Empty,
     Kecamatan |-> Empty,
     Kota |-> Empty,
     Provinsi |-> Empty,
     Alamat_Lengkap |-> Empty,
     Confidence_Score |-> DefaultConfidence,
     Status |-> "NOT_FOUND",
     Source |-> "None"]

\* geocode_coordinate, the branch taken when every strategy gave nothing
NotFoundResult ==
    [Nama_Jalan |-> NotFoundText,
     Kelurahan |-> Empty,
     Kecamatan |-> Empty,
     Kota |-> Empty,
     Provinsi |-> Empty,
     Alamat_Lengkap |-> Empty,
     Confidence_Score |-> 0,
     Status |-> "NOT_FOUND",
     Source |-> "None"]

----------------------------------------------------------------------------
(* detect_columns *)

\* the synonym lists, in the order the code tries them
LatNames == << <<"l","a","t","i","t","u","d","e">>, <<"l","a","t">>, <<"y">>, <<"l","i","n","t","a","n","g">> >>
LonNames == << <<"l","o","n","g","i","t","u","d","e">>, <<"l","o","n">>, <<"l","n","g">>, <<"l","o","n","g">>, <<"x">>, <<"b","u","j","u","r">> >>
KelNames == << <<"k","e","l","u","r","a","h","a","n">>, <<"k","e","l">>, <<"v","i","l","l","a","g","e">>, <<"d","e","s","a">> >>
KecNames == << <<"k","e","c","a","m","a","t","a","n">>, <<"k","e","c">>, <<"d","i","s","t","r","i","c","t">> >>

\* columns_lower = {col.lower(): col for col in df.columns}: for a lower-case
\* name, the last column that lower-cases to it
ColumnsLower(columns, name) ==
    LET hits == {i \in 1..Len(columns) : Lower(columns[i]) = name}
    IN  IF hits = {} THEN None
        ELSE Str(columns[CHOOSE i \in hits : \A j \in hits : j <= i])

\* for name in names: if name in columns_lower: col = columns_lower[name]; break
FirstColumn(columns, names) ==
    LET hits == {n \in 1..Len(names) : ColumnsLower(columns, names[n]) # None}
    IN  IF hits = {} THEN None
        ELSE ColumnsLower(columns, names[CHOOSE n \in hits : \A m \in hits : n <= m])

detect_columns(columns) ==
    [lat_col |-> FirstColumn(columns, LatNames),
     lon_col |-> FirstColumn(columns, LonNames),
     kel_col |-> FirstColumn(columns, KelNames),
     kec_col |-> FirstColumn(columns, KecNames)]

\* MissingCoordinates that stops only when both columns are missing
MissingBothCoordinates(c) == ~Truthy(c.lat_col) /\ ~Truthy(c.lon_col)

\* main: if not lat_col or not lon_col: st.error(...); st.stop()
MissingCoordinates(c) == ~Truthy(c.lat_col) \/ ~Truthy(c.lon_col)

\* df.loc[idx, col]: the cell of row idx (0-based label) in column col
Cell(frame, idx, col) ==
    LET c == CHOOSE i \in 1..Len(frame.columns) : frame.columns[i] = col.s
    IN  frame.rows[idx + 1][c]

----------------------------------------------------------------------------
(* Bounds and inputs *)

\* rows of the uploaded sheet
MaxRows == 2
\* the clock may run freely up to MaxTime half seconds
MaxTime == 4
\* time.time() when the run starts, in half seconds: what matters is that it
\* is later than every delay after the initial last_request of 0
StartTime == 2

\* st.slider("Workers (Parallel Processing)", 1, 5, 3)
MinWorkers == 1
MaxWorkers == 5

Num(chars) == [k |-> "num", s |-> chars]
\* a key or a column that is missing
Absent == [k |-> "absent", s |-> <<>>]

\* Uploaded sheets: the column headers and the cells of the sample rows; a
\* sheet of n rows repeats its sample rows.  An empty cell reads as NaN.
SheetTemplate ==
    [columns |-> << <<"l","a","t","i","t","u","d","e">>, <<"l","o","n","g","i","t","u","d","e">>, <<"k","e","l","u","r","a","h","a","n">>, <<"k","e","c","a","m","a","t","a","n">> >>,
     samples |-> << << Num(<<"-","6",".","2","0","8","8">>), Num(<<"1","0","6",".","8","4","5","6">>), Str(<<"M","e","n","t","e","n","g">>), Str(<<"M","e","n","t","e","n","g">>) >>,
                    << Num(<<"-","6",".","1","7","5","1">>), Num(<<"1","0","6",".","8","6","5","0">>), Str(<<"G","a","m","b","i","r">>), NaN >>,
                    << Num(<<"-","6",".","2","1","4","6">>), Num(<<"1","0","6",".","8","4","5","1">>), NaN, Str(<<"T","a","n","a","h"," ","A","b","a","n","g">>) >> >>]

SheetSynonyms ==
    [columns |-> << <<"Y">>, <<"l","a","t">>, <<"L","N","G">> >>,
     samples |-> << << Num(<<"0">>), Num(<<"-","6",".","2","0","8","8">>), Num(<<"1","0","6",".","8","4","5","6">>) >>,
                    << Num(<<"0">>), Num(<<"-","6",".","1","7","5","1">>), Num(<<"1","0","6",".","8","6","5","0">>) >> >>]

SheetNoLongitude ==
    [columns |-> << <<"L","a","t","i","t","u","d","e">>, <<"K","e","l">> >>,
     samples |-> << << Num(<<"-","6",".","2","0","8","8">>), Str(<<"M","e","n","t","e","n","g">>) >> >>]

SheetNoLatitude ==
    [columns |-> << <<"n","a","m","a">>, <<"L","o","n","g">>, <<"k","e","c">> >>,
     samples |-> << << Str(<<"A">>), Num(<<"1","0","6",".","8","4","5","6">>), Str(<<"M","e","n","t","e","n","g">>) >> >>]

SheetNames == {"template", "synonyms", "no_longitude", "no_latitude"}

Sheet(name) ==
    CASE name = "template" -> SheetTemplate
      [] name = "synonyms" -> SheetSynonyms
      [] name = "no_longitude" -> SheetNoLongitude
      [] OTHER -> SheetNoLatitude

\* pd.read_excel(file): the frame of the first file.rows rows of the sheet
ReadExcel(file) ==
    LET sheet == Sheet(file.sheet)
    IN  [columns |-> sheet.columns,
         rows |-> [i \in 1..file.rows |->
                      sheet.samples[((i - 1) % Len(sheet.samples)) + 1]]]

----------------------------------------------------------------------------
(* Providers and their responses *)

Providers == {"nominatim", "photon"}

\* self.providers[...]['delay'], in half seconds
Delay == [p \in Providers |-> IF p = "nominatim" THEN 2 ELSE 1]

\* Strategies with the two zoom levels exchanged
StrategiesCoarseFirst == << [provider |-> "nominatim", zoom |-> 17],
                            [provider |-> "nominatim", zoom |-> 18],
                            [provider |-> "photon", zoom |-> 0] >>

\* the strategies of geocode_coordinate, in the order it tries them
Strategies == << [provider |-> "nominatim", zoom |-> 18],
                 [provider |-> "nominatim", zoom |-> 17],
                 [provider |-> "photon", zoom |-> 0] >>

\* what a provider call gave: data is meaningful when present
NoData == [present |-> FALSE, address_is_dict |-> TRUE, address |-> NoAddress,
           display_name |-> Empty]
Data(address_is_dict, address, display_name) ==
    [present |-> TRUE, address_is_dict |-> address_is_dict, address |-> address,
     display_name |-> display_name]

\* A response: exc is the exception session.get raised ("none" if it
\* returned), status the HTTP status, and for a 200 the JSON body:
\*   json_ok      response.json() parses
\*   has_error    'error' in data
\*   has_address  'address' in data (Nominatim); a first feature (Photon)
\*   well_formed  the address is a dict (Nominatim); the first feature has
\*                dict properties and geometry coordinates (Photon)
Response(exc, status, json_ok, has_error, has_address, well_formed, address, name) ==
    [exc |-> exc, status |-> status, json_ok |-> json_ok, has_error |-> has_error,
     has_address |-> has_address, well_formed |-> well_formed, address |-> address,
     name |-> name]

Failure(exc, status) == Response(exc, status, FALSE, FALSE, FALSE, FALSE, NoAddress, Absent)

AddrMenteng == [NoAddress EXCEPT !["road"] = Str(<<"J","l"," ","C","i","k","i","n","i">>),
                                 !["suburb"] = Str(<<"M","e","n","t","e","n","g">>),
                                 !["city_district"] = Str(<<"M","e","n","t","e","n","g">>),
                                 !["city"] = Str(<<"J","a","k","a","r","t","a">>),
                                 !["state"] = Str(<<"D","K","I">>)]
AddrGambir == [NoAddress EXCEPT !["village"] = Str(<<"K","e","l","u","r","a","h","a","n"," ","G","a","m","b","i","r">>),
                                !["county"] = Str(<<"G","a","m","b","i","r">>)]

\* Photon: address holds the properties of the first feature under the keys
\* street, district, locality, county, city, state, postcode
PhotonKeys == {"street", "district", "locality", "county", "city", "state", "postcode"}
NoProperties == [key \in PhotonKeys |-> None]
PropsMenteng == [NoProperties EXCEPT !["locality"] = Str(<<"M","e","n","t","e","n","g">>),
                                     !["county"] = Str(<<"M","e","n","t","e","n","g">>),
                                     !["city"] = Str(<<"J","a","k","a","r","t","a">>)]

\* the transport and status failures of either provider
FailureReplies == {"http_429", "http_500", "timeout", "connection"}

FailureReply(reply) ==
    CASE reply = "http_429" -> Failure("none", 429)
      [] reply = "http_500" -> Failure("none", 500)
      [] reply = "timeout" -> Failure("timeout", 0)
      [] OTHER -> Failure("connection", 0)

\* the sample replies of Nominatim, by name
NominatimReplies ==
    {"menteng", "gambir", "null_address", "error_marker", "not_json"} \cup FailureReplies

NominatimReply(reply) ==
    CASE reply = "menteng" ->
            Response("none", 200, TRUE, FALSE, TRUE, TRUE, AddrMenteng, Str(<<"M","e","n","t","e","n","g",","," ","J","a","k","a","r","t","a">>))
      [] reply = "gambir" ->
            Response("none", 200, TRUE, FALSE, TRUE, TRUE, AddrGambir, Absent)
         \* {"address": null}: the key is there, the value is no dict
      [] reply = "null_address" ->
            Response("none", 200, TRUE, FALSE, TRUE, FALSE, NoAddress, Absent)
         \* {"error": "Unable to geocode"}
      [] reply = "error_marker" ->
            Response("none", 200, TRUE, TRUE, FALSE, FALSE, NoAddress, Absent)
         \* a body that is no JSON
      [] reply = "not_json" ->
            Response("none", 200, FALSE, FALSE, FALSE, FALSE, NoAddress, Absent)
      [] OTHER -> FailureReply(reply)

\* the sample replies of Photon, by name
PhotonReplies == {"feature", "no_features", "broken_feature"} \cup FailureReplies

PhotonReply(reply) ==
    CASE reply = "feature" ->
            Response("none", 200, TRUE, FALSE, TRUE, TRUE, PropsMenteng, Str(<<"M","e","n","t","e","n","g">>))
         \* {"features": []}
      [] reply = "no_features" ->
            Response("none", 200, TRUE, FALSE, FALSE, FALSE, NoProperties, Absent)
         \* a first feature without geometry, or with properties null
      [] reply = "broken_feature" ->
            Response("none", 200, TRUE, FALSE, TRUE, FALSE, NoProperties, Absent)
      [] OTHER -> FailureReply(reply)

Replies(provider) ==
    IF provider = "nominatim" THEN NominatimReplies ELSE PhotonReplies

\* session.get(self.providers[provider]['url'], ...)
SessionGet(provider, reply) ==
    IF provider = "nominatim" THEN NominatimReply(reply) ELSE PhotonReply(reply)

\* dict.get(key, '') of a key that may be missing
GetOr(value, default) == IF value = Absent THEN default ELSE value

\* UltraGeocoderWeb.geocode_nominatim after rate_limit: (data, source)
geocode_nominatim(r) ==
    IF /\ r.exc = "none"
       /\ r.status = 200
       /\ r.json_ok
       /\ ~r.has_error /\ r.has_address
    THEN [data |-> Data(r.well_formed, r.address, GetOr(r.name, Empty)),
          source |-> "nominatim"]
    ELSE [data |-> NoData, source |-> "none"]

\* UltraGeocoderWeb.geocode_photon after rate_limit: (data, source)
geocode_photon(r) ==
    IF /\ r.exc = "none"
       /\ r.status = 200
       /\ r.json_ok
       /\ r.has_address
       /\ r.well_formed
    THEN [data |-> Data(TRUE,
                        [NoAddress EXCEPT
                            !["road"] = r.address["street"],
                            !["suburb"] = Or(r.address["district"], r.address["locality"]),
                            !["city_district"] = r.address["county"],
                            !["city"] = r.address["city"],
                            !["state"] = r.address["state"],
                            !["postcode"] = r.address["postcode"]],
                        GetOr(r.name, Empty)),
          source |-> "photon"]
    ELSE [data |-> NoData, source |-> "none"]

\* the call of a strategy, given the reply to its request
Fetch(provider, reply) ==
    IF provider = "nominatim"
    THEN geocode_nominatim(SessionGet(provider, reply))
    ELSE geocode_photon(SessionGet(provider, reply))

\* The failure reason of a response, for the attempt log:
\* ok, malformed, no_result, rate_limit, timeout or error
Outcome(r) ==
    IF r.exc = "timeout" THEN "timeout"
    ELSE IF r.exc # "none" THEN "error"
    ELSE IF r.status = 429 THEN "rate_limit"
    ELSE IF r.status # 200 THEN "error"
    ELSE IF ~r.json_ok THEN "no_result"
    ELSE IF r.has_error \/ ~r.has_address THEN "no_result"
    ELSE IF ~r.well_formed THEN "malformed"
    ELSE "ok"

----------------------------------------------------------------------------
(* State *)

VARIABLES
    pc,            \* where main() is: uploaded, stopped, ready, running,
                   \* unwinding, failed, done
    uploaded_file, \* the uploaded file: which sheet it is and how many rows
    max_workers,   \* the slider value
    cols,          \* what detect_columns returned
    geocoder,      \* TRUE once UltraGeocoderWeb(...) has been constructed
    last_request,  \* geocoder.providers[p]['last_request']
    stats,         \* geocoder.stats
    now,           \* time.time(), in half seconds
    task,          \* the submitted calls of geocode_coordinate, one per future
    futures,       \* futures[future] = idx
    yielded,       \* the futures as_completed has yielded
    results,       \* the list results
    completed,     \* the progress counter
    df_result,     \* the sorted result frame
    audit,         \* history only: TRUE when the calls log their outcomes
    unit           \* the last direct call of a method of the geocoder, with
                   \* its arguments and what it returned

vars == <<pc, uploaded_file, max_workers, cols, geocoder, last_request, stats, now,
          task, futures, yielded, results, completed, df_result, audit, unit>>

\* df = pd.read_excel(uploaded_file)
df == ReadExcel(uploaded_file)

NoColumns == [lat_col |-> None, lon_col |-> None, kel_col |-> None, kec_col |-> None]

\* UltraGeocoderWeb.__init__
InitialLastRequest == [p \in Providers |-> 0]
InitialStats == [success |-> 0, not_found |-> 0, error |-> 0]

\* no method was called directly
NoCall ==
    [fn |-> "none", text1 |-> None, text2 |-> None, address |-> NoAddress,
     text |-> <<>>, sim |-> Frac(0, 1), score |-> Frac(0, 1), result |-> NotFoundResult]

\* A run: a sheet of one of `sizes` rows is uploaded and the slider is at one
\* of `workers`
Setup(logging, workers, sizes) ==
    /\ audit = logging
    /\ pc = "uploaded"
    /\ uploaded_file \in [sheet : SheetNames, rows : sizes]
    /\ max_workers \in workers
    /\ cols = NoColumns
    /\ geocoder = FALSE
    /\ last_request = InitialLastRequest
    /\ stats = InitialStats
    /\ now = StartTime
    /\ task = <<>>
    /\ futures = <<>>
    /\ yielded = {}
    /\ results = <<>>
    /\ completed = 0
    /\ df_result = <<>>
    /\ unit = NoCall

Init == Setup(FALSE, MinWorkers..MaxWorkers, 1..MaxRows)

\* the same program with the outcome of every call logged, for one row
InitAudit == Setup(TRUE, MinWorkers..MaxWorkers, {1})

Futures == DOMAIN task

\* a return value not yet there
Pending == [NotFoundResult EXCEPT !.Status = "PENDING"]

\* executor.submit(geocoder.geocode_coordinate, ...) for the row labelled idx.
\* The call keeps the label of its row; its arguments are the cells of that
\* row (Latitude, Longitude, ExpectedKelurahan, ExpectedKecamatan below).
\*   reply   the reply that gave the data, "none" while there is no data
\*   calls   the requests made so far
\*   log     the outcomes of the requests made so far (when audit)
\*   tmp     the counter value read by stats[...] += 1
\*   ret     the dict the call returned
Submit(idx) ==
    [pc |-> "queued",
     idx |-> idx,
     strategy |-> 1,
     wake |-> 0,
     reply |-> "none",
     source |-> "none",
     calls |-> <<>>,
     log |-> <<>>,
     tmp |-> 0,
     ret |-> Pending]

\* row['latitude'], row['longitude'] after df['latitude'] = df[lat_col] etc.
Latitude(idx) == Cell(df, idx, cols.lat_col)
Longitude(idx) == Cell(df, idx, cols.lon_col)
\* row.get('kelurahan') if kel_col else None
ExpectedKelurahan(idx) == IF Truthy(cols.kel_col) THEN Cell(df, idx, cols.kel_col) ELSE None
\* row.get('kecamatan') if kec_col else None
ExpectedKecamatan(idx) == IF Truthy(cols.kec_col) THEN Cell(df, idx, cols.kec_col) ELSE None

\* futures[future] = idx: the f-th submitted future is for the row labelled f - 1
FutureIndex(f) == f - 1

----------------------------------------------------------------------------
(* main *)

\* main, lines 414-450: read the sheet, detect the columns, stop if a
\* coordinate column is missing
DetectColumns ==
    /\ pc = "uploaded"
    /\ cols' = detect_columns(df.columns)
    /\ pc' = IF MissingCoordinates(cols') THEN "stopped" ELSE "ready"
    /\ UNCHANGED <<uploaded_file, max_workers, geocoder, last_request, stats, now, task,
                   futures, yielded, results, completed, df_result, audit, unit>>

\* main, lines 452-491: the button; construct the geocoder and submit one
\* future per row
StartGeocoding ==
    /\ pc = "ready"
    /\ geocoder' = TRUE
    /\ last_request' = InitialLastRequest
    /\ stats' = InitialStats
    /\ task' = [f \in 1..Len(df.rows) |-> Submit(FutureIndex(f))]
    /\ futures' = [f \in 1..Len(df.rows) |-> FutureIndex(f)]
    /\ results' = <<>>
    /\ completed' = 0
    /\ yielded' = {}
    /\ pc' = "running"
    /\ UNCHANGED <<uploaded_file, max_workers, cols, now, df_result, audit, unit>>

\* Collect that leaves the progress counter as it is
CollectSilent(f) ==
    /\ pc = "running"
    /\ f \in Futures \ yielded
    /\ task[f].pc = "done"
    /\ yielded' = yielded \cup {f}
    /\ results' = Append(results, [future |-> f, Original_Index |-> futures[f]])
    /\ UNCHANGED <<pc, uploaded_file, max_workers, cols, geocoder, last_request, stats, now,
                   task, futures, completed, df_result, audit, unit>>

\* main, lines 492-510: as_completed yields a finished future; its result is
\* appended with result['Original_Index'] = futures[future] and the progress
\* counter advances.  A row of results names the future whose result it is.
Collect(f) ==
    /\ pc = "running"
    /\ f \in Futures \ yielded
    /\ task[f].pc = "done"
    /\ yielded' = yielded \cup {f}
    /\ results' = Append(results, [future |-> f, Original_Index |-> futures[f]])
    /\ completed' = completed + 1
    /\ UNCHANGED <<pc, uploaded_file, max_workers, cols, geocoder, last_request, stats, now,
                   task, futures, df_result, audit, unit>>

\* main, line 493: future.result() re-raises what the call raised; the with
\* block is left and waits for the workers
CollectRaises(f) ==
    /\ pc = "running"
    /\ f \in Futures \ yielded
    /\ task[f].pc = "raised"
    /\ yielded' = yielded \cup {f}
    /\ pc' = "unwinding"
    /\ UNCHANGED <<uploaded_file, max_workers, cols, geocoder, last_request, stats, now,
                   task, futures, results, completed, df_result, audit, unit>>

Terminated(f) == task[f].pc \in {"done", "raised"}

\* main, lines 559-560: executor.shutdown(wait=True) has returned and the
\* except clause reports the error
ReportError ==
    /\ pc = "unwinding"
    /\ \A f \in Futures : Terminated(f)
    /\ pc' = "failed"
    /\ UNCHANGED <<uploaded_file, max_workers, cols, geocoder, last_request, stats, now,
                   task, futures, yielded, results, completed, df_result, audit, unit>>

\* the position sort_values('Original_Index') gives row j: rows with a smaller
\* index come first, rows with the same index keep their order
Rank(rows, j) ==
    Cardinality({i \in DOMAIN rows :
        \/ rows[i].Original_Index < rows[j].Original_Index
        \/ rows[i].Original_Index = rows[j].Original_Index /\ i < j})

\* df_result.sort_values('Original_Index').reset_index(drop=True)
SortValues(rows) ==
    [i \in 1..Len(rows) |-> rows[CHOOSE j \in DOMAIN rows : Rank(rows, j) = i - 1]]

\* main, lines 512-516: every future was yielded; build and sort the frame
FinishBatch ==
    /\ pc = "running"
    /\ yielded = Futures
    /\ df_result' = SortValues(results)
    /\ pc' = "done"
    /\ UNCHANGED <<uploaded_file, max_workers, cols, geocoder, last_request, stats, now,
                   task, futures, yielded, results, completed, audit, unit>>

----------------------------------------------------------------------------
(* The workers: geocode_coordinate *)

InFlight == {f \in Futures : task[f].pc \notin {"queued", "done", "raised"}}

WorkersRun == pc \in {"running", "unwinding"}

\* FreeWorker that lets the pool grow without limit
FreeWorkerUnbounded == TRUE

\* ThreadPoolExecutor(max_workers=max_workers): the pool has max_workers
\* threads, each running one call at a time
FreeWorker == Cardinality(InFlight) < max_workers

\* ThreadPoolExecutor: a free worker thread takes the oldest queued call
Start(f) ==
    /\ WorkersRun
    /\ task[f].pc = "queued"
    /\ \A g \in Futures : g < f => task[g].pc # "queued"
    /\ FreeWorker
    /\ task' = [task EXCEPT ![f].pc = "rate_limit"]
    /\ UNCHANGED <<pc, uploaded_file, max_workers, cols, geocoder, last_request, stats, now,
                   futures, yielded, results, completed, df_result, audit, unit>>

ProviderOf(f) == Strategies[task[f].strategy].provider

\* rate_limit, lines 138-142: read the clock and last_request and decide how
\* long to sleep; the result is when time.sleep returns at the earliest
SleepUntil(current_time, last, delay) ==
    LET time_since_last == current_time - last
    IN  IF time_since_last < delay
        THEN current_time + (delay - time_since_last)
        ELSE current_time

RateLimitCheck(f) ==
    /\ WorkersRun
    /\ task[f].pc = "rate_limit"
    /\ task' = [task EXCEPT
                  ![f].wake = SleepUntil(now, last_request[ProviderOf(f)],
                                         Delay[ProviderOf(f)]),
                  ![f].pc = "stamp"]
    /\ UNCHANGED <<pc, uploaded_file, max_workers, cols, geocoder, last_request, stats, now,
                   futures, yielded, results, completed, df_result, audit, unit>>

\* rate_limit, line 143: the sleep is over; provider['last_request'] = time.time().
\* The worker reads the clock after the sleep and stores what it read; no
\* lock covers the two, so other threads may run in between and the value
\* stored is a reading taken at some moment since the sleep ended.
Stamp(f) ==
    /\ WorkersRun
    /\ task[f].pc = "stamp"
    /\ now >= task[f].wake
    /\ \E reading \in task[f].wake..now :
          last_request' = [last_request EXCEPT ![ProviderOf(f)] = reading]
    /\ task' = [task EXCEPT ![f].wake = 0, ![f].pc = "request"]
    /\ UNCHANGED <<pc, uploaded_file, max_workers, cols, geocoder, stats, now,
                   futures, yielded, results, completed, df_result, audit, unit>>

\* AfterCall that sends the request of a fallback strategy at once, without
\* rate_limit
AfterCallUnlimited(t, reply) ==
    LET provider == Strategies[t.strategy].provider
        got == Fetch(provider, reply)
        called == Append(t.calls, Strategies[t.strategy])
    IN  IF got.data.present
        THEN [t EXCEPT !.reply = reply, !.source = got.source, !.calls = called,
                       !.pc = "build"]
        ELSE IF t.strategy < Len(Strategies)
        THEN [t EXCEPT !.strategy = t.strategy + 1, !.calls = called, !.pc = "request"]
        ELSE [t EXCEPT !.calls = called, !.pc = "build"]

\* geocode_coordinate, lines 206-220: the call of the current strategy
\* returns; its data ends the chain, no data moves on to the next strategy
AfterCall(t, reply) ==
    LET provider == Strategies[t.strategy].provider
        got == Fetch(provider, reply)
        logged == IF audit
                  THEN Append(t.log, [strategy |-> t.strategy,
                                      outcome |-> Outcome(SessionGet(provider, reply)),
                                      exc |-> SessionGet(provider, reply).exc])
                  ELSE t.log
        called == Append(t.calls, Strategies[t.strategy])
    IN  IF got.data.present
        THEN [t EXCEPT !.reply = reply, !.source = got.source, !.log = logged,
                       !.calls = called, !.pc = "build"]
        ELSE IF t.strategy < Len(Strategies)
        THEN [t EXCEPT !.strategy = t.strategy + 1, !.log = logged,
                       !.calls = called, !.pc = "rate_limit"]
        ELSE [t EXCEPT !.log = logged, !.calls = called, !.pc = "build"]

Request(f) ==
    /\ WorkersRun
    /\ task[f].pc = "request"
    /\ \E reply \in Replies(ProviderOf(f)) :
          task' = [task EXCEPT ![f] = AfterCall(task[f], reply)]
    /\ UNCHANGED <<pc, uploaded_file, max_workers, cols, geocoder, last_request, stats, now,
                   futures, yielded, results, completed, df_result, audit, unit>>

\* the data the chain of call t ended with: results[0] if results
DataOf(t) ==
    IF t.reply = "none" THEN NoData
    ELSE Fetch(t.calls[Len(t.calls)].provider, t.reply).data

\* Counter that counts every row as a success
CounterAlwaysSuccess(t) == "success"

\* the counter geocode_coordinate increments
Counter(t) == IF DataOf(t).present THEN "success" ELSE "not_found"

\* geocode_coordinate, lines 222-241 and 254-255: with data, address.get
\* raises AttributeError when the address is no dict; otherwise the fields are
\* extracted and the counter is read
Build(f) ==
    /\ WorkersRun
    /\ task[f].pc = "build"
    /\ IF DataOf(task[f]).present /\ ~DataOf(task[f]).address_is_dict
       THEN task' = [task EXCEPT ![f].pc = "raised"]
       ELSE task' = [task EXCEPT ![f].tmp = stats[Counter(task[f])],
                                 ![f].pc = "increment"]
    /\ UNCHANGED <<pc, uploaded_file, max_workers, cols, geocoder, last_request, stats, now,
                   futures, yielded, results, completed, df_result, audit, unit>>

\* the dict geocode_coordinate returns
ResultOf(t) ==
    IF DataOf(t).present
    THEN OkResult(DataOf(t), t.source, ExpectedKelurahan(t.idx), ExpectedKecamatan(t.idx))
    ELSE NotFoundResult

\* geocode_coordinate, lines 241-253 and 255-266: the counter is written back
\* and the result returned
Return(f) ==
    /\ WorkersRun
    /\ task[f].pc = "increment"
    /\ stats' = [stats EXCEPT ![Counter(task[f])] = task[f].tmp + 1]
    /\ task' = [task EXCEPT ![f].ret = ResultOf(task[f]), ![f].pc = "done"]
    /\ UNCHANGED <<pc, uploaded_file, max_workers, cols, geocoder, last_request, now,
                   futures, yielded, results, completed, df_result, audit, unit>>

\* a worker is in time.sleep
Sleeping(f) == task[f].pc = "stamp" /\ task[f].wake > now

\* time passes
Tick ==
    /\ WorkersRun
    /\ now < MaxTime \/ \E f \in Futures : Sleeping(f)
    /\ now' = now + 1
    /\ UNCHANGED <<pc, uploaded_file, max_workers, cols, geocoder, last_request, stats,
                   task, futures, yielded, results, completed, df_result, audit, unit>>

Next ==
    \/ DetectColumns
    \/ StartGeocoding
    \/ \E f \in Futures : Start(f)
    \/ \E f \in Futures : RateLimitCheck(f)
    \/ \E f \in Futures : Stamp(f)
    \/ \E f \in Futures : Request(f)
    \/ \E f \in Futures : Build(f)
    \/ \E f \in Futures : Return(f)
    \/ \E f \in Futures : Collect(f)
    \/ \E f \in Futures : CollectRaises(f)
    \/ ReportError
    \/ FinishBatch
    \/ Tick

Spec == Init /\ [][Next]_vars

SpecAudit == InitAudit /\ [][Next]_vars

\* a step of the worker thread that runs the call of future f
Worker(f) ==
    /\ f \in Futures
    /\ \/ Start(f)
       \/ RateLimitCheck(f)
       \/ Stamp(f)
       \/ Request(f)
       \/ Build(f)
       \/ Return(f)

\* a step of the main thread once the batch has started
Batch ==
    \/ \E f \in Futures : Collect(f)
    \/ \E f \in Futures : CollectRaises(f)
    \/ ReportError
    \/ FinishBatch

\* The threads keep running: the main thread and every worker thread take
\* their next step when they can, a request returns (timeout=10) and time
\* passes
Fairness ==
    /\ WF_vars(Batch)
    /\ WF_vars(Tick)
    /\ \A f \in 1..MaxRows : WF_vars(Worker(f))

\* a sheet of coordinates only, one or two workers
InitFair ==
    /\ Init
    /\ uploaded_file.sheet = "synonyms"
    /\ max_workers <= 2

SpecFair == InitFair /\ [][Next]_vars /\ Fairness

----------------------------------------------------------------------------
(* The methods of the geocoder called directly *)

\* Texts: expected values as a cell of the sheet gives them (None for a
\* missing column, NaN for an empty cell) and names as a provider gives them
Texts ==
    {None, NaN, Empty,
     Str(<<" ", " ">>),
     Str(<<"K","e","l","u","r","a","h","a","n">>),
     Str(<<"k","e","c","."," ">>),
     Str(<<"M","e","n","t","e","n","g">>),
     Str(<<" ","M","E","N","T","E","N","G"," ">>),
     Str(<<"K","e","l","."," ","M","e","n","t","e","n","g">>),
     Str(<<"K","e","c","a","m","a","t","a","n"," "," ","M","e","n","t","e","n","g">>),
     Str(<<"M","e","n","t","e","n","g"," ","R","a","y","a">>),
     Str(<<"R","a","y","a"," ","M","e","n","t","e","n","g">>),
     Str(<<"K","e","b","o","n"," ","S","i","r","i","h">>),
     Str(<<"K","e","b","o","n"," ","K","a","c","a","n","g">>),
     Str(<<"G","a","m","b","i","r">>)}

\* the expected locality of a row
ExpectedKelurahanTexts ==
    {None, NaN, Empty,
     Str(<<"K","e","l","u","r","a","h","a","n">>),
     Str(<<"M","e","n","t","e","n","g">>),
     Str(<<"G","a","m","b","i","r">>)}

\* the expected sub-district of a row
ExpectedKecamatanTexts ==
    {None, NaN,
     Str(<<"M","e","n","t","e","n","g">>),
     Str(<<"K","e","b","o","n"," ","K","a","c","a","n","g">>)}

\* the value a provider gives under a key of the address
KeyText(key) ==
    CASE key = "suburb" -> Str(<<"M","e","n","t","e","n","g">>)
      [] key = "village" -> Str(<<"K","e","l","u","r","a","h","a","n"," ","M","e","n","t","e","n","g">>)
      [] key = "neighbourhood" -> Str(<<"K","e","b","o","n"," ","S","i","r","i","h">>)
      [] key = "district" -> Str(<<"G","a","m","b","i","r">>)
      [] key = "city_district" -> Str(<<"K","e","c","."," ","M","e","n","t","e","n","g">>)
      [] key = "municipality" -> Str(<<"K","e","b","o","n"," ","K","a","c","a","n","g">>)
      [] key = "county" -> Str(<<"J","a","k","a","r","t","a"," ","P","u","s","a","t">>)
      [] OTHER -> None

\* the keys the locality and the sub-district are read from
LocalityKeys == <<"suburb", "village", "neighbourhood", "district">>
SubdistrictKeys == <<"city_district", "municipality", "county">>

\* what a key holds: 0 for nothing, 1 for the empty string, 2 for its text
KeyValue(key, choice) ==
    IF choice = 0 THEN None ELSE IF choice = 1 THEN Empty ELSE KeyText(key)

\* the address with the given choices for the locality and sub-district keys
Address(locality, subdistrict) ==
    [key \in AddrKeys |->
        IF \E i \in 1..Len(LocalityKeys) : LocalityKeys[i] = key
        THEN KeyValue(key, locality[CHOOSE i \in 1..Len(LocalityKeys) : LocalityKeys[i] = key])
        ELSE IF \E i \in 1..Len(SubdistrictKeys) : SubdistrictKeys[i] = key
        THEN KeyValue(key, subdistrict[CHOOSE i \in 1..Len(SubdistrictKeys) :
                                          SubdistrictKeys[i] = key])
        ELSE None]

\* the choices for a locality key: the first two may also hold the empty
\* string
LocalityChoices(i) == IF i <= 2 THEN {0, 1, 2} ELSE {0, 2}

\* Addresses: under each locality and sub-district key nothing or the text of
\* the key, under suburb and village also the empty string
Addresses ==
    {Address(locality, subdistrict) :
        locality \in {l \in [1..Len(LocalityKeys) -> {0, 1, 2}] :
                         \A i \in 1..Len(LocalityKeys) : l[i] \in LocalityChoices(i)},
        subdistrict \in [1..Len(SubdistrictKeys) -> {0, 2}]}

\* a geocoder was constructed, no batch runs and one of its methods is about
\* to be called
InitUnit ==
    /\ audit = FALSE
    /\ pc = "unit"
    /\ uploaded_file = [sheet |-> "template", rows |-> 1]
    /\ max_workers = MinWorkers
    /\ cols = NoColumns
    /\ geocoder = TRUE
    /\ last_request = InitialLastRequest
    /\ stats = InitialStats
    /\ now = StartTime
    /\ task = <<>>
    /\ futures = <<>>
    /\ yielded = {}
    /\ results = <<>>
    /\ completed = 0
    /\ df_result = <<>>
    /\ unit = NoCall

UnitFrame ==
    UNCHANGED <<pc, uploaded_file, max_workers, cols, geocoder, last_request, stats, now,
                task, futures, yielded, results, completed, df_result, audit>>

\* geocoder.normalize_text(text)
NormalizeText ==
    /\ pc = "unit"
    /\ unit.fn = "none"
    /\ \E text \in Texts :
          unit' = [NoCall EXCEPT !.fn = "normalize_text", !.text1 = text,
                                 !.text = normalize_text(text)]
    /\ UnitFrame

\* geocoder.calculate_similarity(text1, text2)
CalculateSimilarity ==
    /\ pc = "unit"
    /\ unit.fn = "none"
    /\ \E text1 \in Texts, text2 \in Texts :
          unit' = [NoCall EXCEPT !.fn = "calculate_similarity", !.text1 = text1,
                                 !.text2 = text2,
                                 !.sim = calculate_similarity(text1, text2)]
    /\ UnitFrame

\* geocoder.score_result(address, expected_kelurahan, expected_kecamatan)
ScoreResult ==
    /\ pc = "unit"
    /\ unit.fn = "none"
    /\ \E address \in Addresses, expected_kelurahan \in ExpectedKelurahanTexts,
          expected_kecamatan \in ExpectedKecamatanTexts :
          unit' = [NoCall EXCEPT !.fn = "score_result", !.address = address,
                                 !.text1 = expected_kelurahan,
                                 !.text2 = expected_kecamatan,
                                 !.score = score_result(address, expected_kelurahan,
                                                        expected_kecamatan)]
    /\ UnitFrame

\* geocoder.geocode_coordinate(lat, lon, expected_kelurahan, expected_kecamatan)
\* when Nominatim answers with the address: the dict it returns
GeocodeCoordinate ==
    /\ pc = "unit"
    /\ unit.fn = "none"
    /\ \E address \in Addresses, expected_kelurahan \in ExpectedKelurahanTexts,
          expected_kecamatan \in ExpectedKecamatanTexts :
          unit' = [NoCall EXCEPT !.fn = "geocode_coordinate", !.address = address,
                                 !.text1 = expected_kelurahan,
                                 !.text2 = expected_kecamatan,
                                 !.result = OkResult(Data(TRUE, address, Empty), "nominatim",
                                                     expected_kelurahan, expected_kecamatan)]
    /\ UnitFrame

NextUnit ==
    \/ NormalizeText
    \/ CalculateSimilarity
    \/ ScoreResult
    \/ GeocodeCoordinate

SpecUnit == InitUnit /\ [][NextUnit]_vars

----------------------------------------------------------------------------
(* Properties *)

Rows == Len(df.rows)
Finished(f) == f \in Futures /\ task[f].pc = "done"

\* future.result() of a call that returned
Ret(t) == t.ret

\* the row main appends for a collected future: the result of the call with
\* the index and the cells of the row the future is mapped to
Collected(row) ==
    [result |-> Ret(task[row.future]),
     Original_Index |-> row.Original_Index,
     Latitude |-> Latitude(row.Original_Index),
     Longitude |-> Longitude(row.Original_Index),
     Kelurahan_Original |-> ExpectedKelurahan(row.Original_Index),
     Kecamatan_Original |-> ExpectedKecamatan(row.Original_Index)]

\* C1: when the batch has ended, the result frame has one row per input row
\* and row i carries the index, the coordinates and the geocoding result of
\* input row i, whatever the worker count and the completion order.
C1_OneResultPerRowInOrder ==
    pc \in {"done", "failed"} =>
        /\ Len(results) = Rows
        /\ Len(df_result) = Rows
        /\ \A i \in 1..Rows :
              /\ i \in DOMAIN df_result
              /\ Collected(df_result[i]).Original_Index = i - 1
              /\ Collected(df_result[i]).Latitude = Cell(df, i - 1, cols.lat_col)
              /\ Collected(df_result[i]).Longitude = Cell(df, i - 1, cols.lon_col)
              /\ Finished(df_result[i].future)
              /\ task[df_result[i].future].idx = i - 1

\* C2: a worker that passes the limiter of a provider does so at least the
\* provider's delay after the previous permitted request to that provider.
C2_MinimumInterval ==
    [][\A f \in Futures :
          (/\ task[f].pc = "stamp"
           /\ task'[f].pc = "request"
           /\ last_request[ProviderOf(f)] # 0)
          => last_request'[ProviderOf(f)] - last_request[ProviderOf(f)]
                >= Delay[ProviderOf(f)]]_vars

Count(status) ==
    Cardinality({i \in DOMAIN results : Collected(results[i]).result.Status = status})

\* C3: after a batch, success counts the OK results, not_found the NOT_FOUND
\* results, and together they count the rows.
C3_CountersMatchResults ==
    pc = "done" =>
        /\ stats.success = Count("OK")
        /\ stats.not_found = Count("NOT_FOUND")
        /\ stats.success + stats.not_found = Rows

\* C4: a result is OK or NOT_FOUND; OK has a confidence in [0,1] and the name
\* of a provider; NOT_FOUND has confidence 0 and no provider ('None').
WellFormedResult(r) ==
    /\ r.Status \in {"OK", "NOT_FOUND"}
    /\ r.Status = "OK" =>
          /\ r.Confidence_Score >= 0 /\ r.Confidence_Score <= 100
          /\ r.Source \in Providers
    /\ r.Status = "NOT_FOUND" =>
          /\ r.Confidence_Score = 0
          /\ r.Source = "None"

C4_ResultWellFormed ==
    /\ \A f \in Futures : task[f].pc = "done" => WellFormedResult(Ret(task[f]))
    /\ \A i \in DOMAIN results : WellFormedResult(Collected(results[i]).result)
    /\ \A i \in DOMAIN df_result : WellFormedResult(Collected(df_result[i]).result)

\* an OK result with a score from the scorer next to a NOT_FOUND result,
\* both collected
C4_Witness ==
    /\ \E i \in DOMAIN results :
          /\ Collected(results[i]).result.Status = "OK"
          /\ Collected(results[i]).result.Confidence_Score = 100
    /\ \E i \in DOMAIN results : Collected(results[i]).result.Status = "NOT_FOUND"

\* C5: the calls of a coordinate are primary at zoom 18, then primary at zoom
\* 17, then secondary; a call is made only while no earlier one gave data;
\* after data nothing more is called, and the result is built from that data
\* and tagged with the provider that gave it.
ClaimedOrder == << [provider |-> "nominatim", zoom |-> 18],
                   [provider |-> "nominatim", zoom |-> 17],
                   [provider |-> "photon", zoom |-> 0] >>

IsPrefix(a, b) == Len(a) <= Len(b) /\ \A i \in 1..Len(a) : a[i] = b[i]

FirstSuccessWins(t) ==
    /\ IsPrefix(t.calls, ClaimedOrder)
    /\ DataOf(t).present =>
          /\ t.calls # <<>>
          /\ t.source = t.calls[Len(t.calls)].provider
          /\ t.pc \in {"build", "increment", "done", "raised"}
    /\ (t.pc = "done" /\ DataOf(t).present) =>
          /\ Ret(t).Status = "OK"
          /\ Ret(t).Source = t.source
          /\ Ret(t).Alamat_Lengkap = DataOf(t).display_name
          /\ Ret(t).Provinsi = Or(DataOf(t).address["state"], Empty)

CallsOnlyAfterFailure(t, u) ==
    /\ u.calls # t.calls => ~DataOf(t).present /\ Len(u.calls) = Len(t.calls) + 1
    /\ DataOf(t).present => DataOf(u) = DataOf(t) /\ u.source = t.source

C5_FallbackOrder ==
    [][\A f \in Futures :
          /\ FirstSuccessWins(task[f])
          /\ FirstSuccessWins(task'[f])
          /\ CallsOnlyAfterFailure(task[f], task'[f])]_vars

\* all three strategies were called and the third gave the result
C5_Witness ==
    \E f \in Futures :
        /\ task[f].pc = "done"
        /\ Len(task[f].calls) = 3
        /\ Ret(task[f]).Status = "OK"
        /\ Ret(task[f]).Source = "photon"

\* C6: a call that failed with a timeout or a 429 is made again, at most 3
\* times in all, before the next strategy is tried; a call that failed
\* otherwise is not made again.
Transient == {"timeout", "rate_limit"}

AttemptsOf(log, k) == Cardinality({j \in 1..k : log[j].strategy = log[k].strategy})

C6_TransientRetried ==
    \A f \in Futures :
        LET t == task[f] IN
        \A k \in 1..Len(t.log) :
            /\ AttemptsOf(t.log, k) <= 3
            /\ (t.log[k].outcome \in Transient /\ AttemptsOf(t.log, k) < 3) =>
                  IF k < Len(t.log)
                  THEN t.log[k + 1].strategy = t.log[k].strategy
                  ELSE t.strategy = t.log[k].strategy
            /\ (t.log[k].outcome \in {"no_result", "error"} /\ k < Len(t.log)) =>
                  t.log[k + 1].strategy # t.log[k].strategy

\* geocoder.stats has the keys success, not_found and error only
RateLimitCounter == IF "rate_limited" \in DOMAIN stats THEN stats["rate_limited"] ELSE 0

\* C7: when the first two attempts of a coordinate were answered 429 and the
\* third attempt succeeded, the result is OK, from the primary provider, and
\* the rate-limit counter stands at 2.
C7_TwiceRateLimited ==
    \A f \in Futures :
        LET t == task[f] IN
        (/\ t.pc = "done"
         /\ Len(t.log) = 3
         /\ t.log[1].outcome = "rate_limit"
         /\ t.log[2].outcome = "rate_limit"
         /\ t.log[3].outcome = "ok")
        => /\ Ret(t).Status = "OK"
           /\ Ret(t).Source = "nominatim"
           /\ RateLimitCounter = 2

\* every strategy was called and none gave data
AllFailed(t) == t.pc = "done" /\ ~DataOf(t).present

HasSynonym(columns, names) ==
    \E i \in 1..Len(columns), n \in 1..Len(names) : Lower(columns[i]) = names[n]

NoCoordinates ==
    ~HasSynonym(df.columns, LatNames) \/ ~HasSynonym(df.columns, LonNames)

\* C9: without a latitude column or without a longitude column the run stops
\* at the validation: no geocoder, no call submitted, no row processed, the
\* timestamps and the counters as they were.
C9_MissingColumnStops ==
    NoCoordinates =>
        /\ pc \in {"uploaded", "stopped"}
        /\ geocoder = FALSE
        /\ task = <<>>
        /\ futures = <<>>
        /\ results = <<>>
        /\ completed = 0
        /\ df_result = <<>>
        /\ last_request = InitialLastRequest
        /\ stats = InitialStats
        /\ now = StartTime

\* a sheet with a latitude column and no longitude column was stopped
C9_Witness ==
    /\ pc = "stopped"
    /\ HasSynonym(df.columns, LatNames)
    /\ ~HasSynonym(df.columns, LonNames)

\* C10: no call of geocode_coordinate raises, so collecting never fails and
\* the batch is never given up.
C10_NeverRaises ==
    /\ \A f \in Futures : task[f].pc # "raised"
    /\ pc \notin {"unwinding", "failed"}

\* C11: at every moment of a batch the calls of geocode_coordinate that have
\* started and not yet returned are at most max_workers, however many rows
\* were submitted.
C11_InFlightBounded == Cardinality(InFlight) <= max_workers

\* more rows than workers: one call runs while another waits in the queue
C11_Witness ==
    /\ Rows > max_workers
    /\ Cardinality(InFlight) = max_workers
    /\ \E f \in Futures : task[f].pc = "queued"

\* an expected value was supplied for the row: a text, not a missing column
\* and not an empty cell
Supplied(v) == v.k = "str" /\ v.s # <<>>

\* C12: when a candidate is obtained, the confidence is the score of the
\* scorer whenever an expected locality or an expected sub-district was
\* supplied (also when only the sub-district was), and the default 0.5
\* exactly when none was.
C12_ConfidenceIsScore ==
    unit.fn = "geocode_coordinate" =>
        LET sc == score_result(unit.address, unit.text1, unit.text2)
            validated == Supplied(unit.text1) \/ Supplied(unit.text2)
        IN  /\ unit.result.Status = "OK"
            /\ validated => unit.result.Confidence_Score = Round(sc.num, sc.den)
            /\ ~validated => unit.result.Confidence_Score = DefaultConfidence

\* C13: calculate_similarity returns 0 whenever either argument is empty
\* after normalisation, whatever the other argument is; an argument made of
\* prefix tokens or blanks only never gives 0.8 or 1.0.
C13_EmptyGivesZero ==
    unit.fn = "calculate_similarity" =>
        ((normalize_text(unit.text1) = <<>> \/ normalize_text(unit.text2) = <<>>)
            => unit.sim.num = 0)

\* a value is present: Python's truth of it (a text that is not empty; an
\* empty cell, read as NaN, counts as a value)
Present(v) == Truthy(v)

\* the term of one field: its similarity if both values are present, else 0
Term(expected, observed) ==
    IF Present(expected) /\ Present(observed)
    THEN calculate_similarity(expected, observed)
    ELSE Frac(0, 1)

\* the similarity is 1
Perfect(sim) == sim.num = sim.den

RECURSIVE Tokens(_)
Tokens(s) ==
    IF s = <<>> THEN {}
    ELSE IF s[1] = " " THEN Tokens(Tail(s))
    ELSE LET stop == IF \E i \in 1..Len(s) : s[i] = " "
                     THEN CHOOSE i \in 1..Len(s) :
                              s[i] = " " /\ \A j \in 1..(i - 1) : s[j] # " "
                     ELSE Len(s) + 1
         IN  {SubSeq(s, 1, stop - 1)} \cup Tokens(SubSeq(s, stop, Len(s)))

\* a is a piece of b
Substring(a, b) == \E i \in 1..Len(b), j \in 0..Len(b) : SubSeq(b, i, j) = a

\* C17: for arguments that are not empty after normalisation, equal texts give
\* 1.0; otherwise, if one text is a piece of the other, the fixed 0.8 and not
\* the Jaccard value; otherwise |A n B| / |A u B| over the sets of words; and
\* the two arguments may be exchanged.
C17_SimilarityOrder ==
    unit.fn = "calculate_similarity" =>
        LET n1 == normalize_text(unit.text1)
            n2 == normalize_text(unit.text2)
            A == Tokens(n1)
            B == Tokens(n2)
        IN  (n1 # <<>> /\ n2 # <<>>) =>
               /\ unit.sim.den > 0
               /\ IF n1 = n2 THEN unit.sim.num = unit.sim.den
                  ELSE IF Substring(n1, n2) \/ Substring(n2, n1)
                  THEN 5 * unit.sim.num = 4 * unit.sim.den
                  ELSE unit.sim.num * Cardinality(A \cup B)
                          = Cardinality(A \cap B) * unit.sim.den
               /\ LET swapped == calculate_similarity(unit.text2, unit.text1)
                  IN  unit.sim.num * swapped.den = swapped.num * unit.sim.den

\* "menteng" against "menteng raya" gave 0.8 where the Jaccard value is 1/2
C17_Witness ==
    /\ unit.fn = "calculate_similarity"
    /\ normalize_text(unit.text1) = <<"m","e","n","t","e","n","g">>
    /\ normalize_text(unit.text2) = <<"m","e","n","t","e","n","g"," ","r","a","y","a">>
    /\ 5 * unit.sim.num = 4 * unit.sim.den
    /\ Cardinality(Tokens(normalize_text(unit.text1)) \cap Tokens(normalize_text(unit.text2))) = 1
    /\ Cardinality(Tokens(normalize_text(unit.text1)) \cup Tokens(normalize_text(unit.text2))) = 2

\* the keys of the locality that hold a text, by their place in the priority
PresentLocality(address) ==
    {i \in 1..Len(LocalityKeys) :
        address[LocalityKeys[i]].k = "str" /\ address[LocalityKeys[i]].s # <<>>}

\* C18: in an OK result the locality is the first present value among the
\* candidate's suburb, village, neighbourhood and district, in that order, and
\* it is empty only if none of the four is present.
C18_LocalityPriority ==
    unit.fn = "geocode_coordinate" =>
        LET present == PresentLocality(unit.address)
        IN  /\ unit.result.Status = "OK"
            /\ LocalityKeys = <<"suburb", "village", "neighbourhood", "district">>
            /\ present = {} => unit.result.Kelurahan = Empty
            /\ present # {} =>
                  LET first == CHOOSE i \in present : \A j \in present : i <= j
                  IN  /\ unit.result.Kelurahan = unit.address[LocalityKeys[first]]
                      /\ unit.result.Kelurahan # Empty

\* the suburb is an empty string, village and neighbourhood are missing, and
\* the locality came from district
C18_Witness ==
    /\ unit.fn = "geocode_coordinate"
    /\ unit.address["suburb"] = Empty
    /\ unit.address["village"] = None
    /\ unit.address["neighbourhood"] = None
    /\ unit.address["district"] = KeyText("district")
    /\ unit.result.Kelurahan = KeyText("district")

\* every future was yielded
AllCollected == task # <<>> /\ yielded = Futures

\* C19: the completed count starts at 0, grows by exactly 1 each time a result
\* is collected, never exceeds the number of rows, equals it exactly when the
\* batch finishes, and decides nothing: it is the length of results at every
\* moment.
C19_Progress ==
    /\ [](/\ completed >= 0
          /\ completed <= Rows
          /\ completed = Len(results)
          /\ pc \in {"uploaded", "stopped", "ready"} => completed = 0
          /\ pc = "done" => completed = Rows
          /\ (pc \in {"running", "done"} /\ completed = Rows) => AllCollected
          /\ pc \in {"unwinding", "failed"} => completed < Rows)
    /\ [][/\ pc = "ready" => completed' = 0
          /\ pc # "ready" =>
                /\ completed' \in {completed, completed + 1}
                /\ completed' = completed + 1 <=> Cardinality(yielded') = Cardinality(yielded) + 1
                                                   /\ pc' = "running"
                /\ completed' = completed + 1 <=> Len(results') = Len(results) + 1]_vars

\* one of two rows was collected while the other call is still running
C19_Witness ==
    /\ Rows = 2
    /\ completed = 1
    /\ pc = "running"
    /\ \E f \in Futures : task[f].pc \notin {"queued", "done", "raised"}

\* C20: a request goes out only from a worker that has just completed
\* rate_limit for the provider of that request, stamping its last_request;
\* each passage through the limiter is good for one request, also for the
\* zoom-17 and the Photon fallback.
C20_LimiterBeforeRequest ==
    [][\A f \in Futures :
          LET t == task[f]
              u == task'[f]
              provider == Strategies[t.strategy].provider
          IN  /\ Len(u.calls) > Len(t.calls) =>
                    /\ t.pc = "request"
                    /\ Len(u.calls) = Len(t.calls) + 1
                    /\ u.calls[Len(u.calls)].provider = provider
              /\ (t.pc = "request" /\ u # t) =>
                    /\ Len(u.calls) = Len(t.calls) + 1
                    /\ u.pc \in {"rate_limit", "build"}
              /\ (u.pc = "request" /\ u # t) =>
                    /\ t.pc = "stamp"
                    /\ now >= t.wake
                    /\ u.strategy = t.strategy
                    /\ last_request'[provider] \in t.wake..now
              /\ (u.pc = "stamp" /\ u # t) =>
                    /\ t.pc = "rate_limit"
                    /\ u.strategy = t.strategy
                    /\ u.wake >= now]_vars

\* a worker has passed the limiter of Photon and is about to send its third
\* request
C20_Witness ==
    \E f \in Futures :
        /\ task[f].pc = "request"
        /\ task[f].strategy = 3
        /\ Len(task[f].calls) = 2
        /\ last_request["photon"] = now

\* the request could not reach the provider
Unreachable(entry) == entry.exc = "connection"

OneResult(idx) == Cardinality({i \in DOMAIN results : results[i].Original_Index = idx}) = 1

\* C15: a call makes a bounded number of provider requests, never going back
\* to an earlier strategy, and a batch that has started runs to completion:
\* with the threads running, eventually every row has exactly one collected
\* result and the batch finishes.
C15_RunsToCompletion ==
    /\ [](\A f \in Futures : Len(task[f].calls) <= Len(Strategies))
    /\ [][\A f \in Futures : task'[f].strategy >= task[f].strategy]_vars
    /\ (pc = "running") ~>
          (/\ pc = "done"
           /\ \A idx \in 0..(Rows - 1) : OneResult(idx))

\* C21: in an OK result computed with validation (an expected locality was
\* given), the observed values the scorer compares are the values the result
\* shows as Kelurahan and Kecamatan: the confidence is the weighted sum of the
\* similarities of the expected values to the shown ones, and a shown value
\* that is not empty has its term counted.
C21_ScoredAsEmitted ==
    (unit.fn = "geocode_coordinate" /\ Supplied(unit.text1)) =>
        LET t1 == Term(unit.text1, unit.result.Kelurahan)
            t2 == Term(unit.text2, unit.result.Kecamatan)
        IN  /\ unit.result.Status = "OK"
            /\ unit.result.Confidence_Score
                  = Round(60 * t1.num * t2.den + 40 * t2.num * t1.den, t1.den * t2.den)

\* worker f takes a step inside rate_limit
InRateLimit(f) == task[f].pc \in {"rate_limit", "stamp"} /\ task'[f] # task[f]

\* C22: rate_limit(p) changes the last_request of provider p only: the other
\* provider's last_request and the counters stay as they are (the delays and
\* the urls are never assigned), and the last_request of p never decreases.
C22_RateLimitFrame ==
    [][\A f \in Futures :
          InRateLimit(f) =>
              /\ \A q \in Providers \ {ProviderOf(f)} : last_request'[q] = last_request[q]
              /\ stats' = stats
              /\ last_request'[ProviderOf(f)] >= last_request[ProviderOf(f)]]_vars

====
